---- MODULE Spec2Model ----
(***************************************************************************)
(* Model of the traffic-aggregation engine of src/windows/main.py:         *)
(* the session table active_users, the geo cache, the lock, and the three  *)
(* threads that share them: pktmon_sniffer (ingestion), cleanup (eviction) *)
(* and show_monitoring (presentation, run by the main thread).             *)
(*                                                                         *)
(* Time is counted in ticks, TicksPerSec ticks to the second.  A float     *)
(* quotient a / b is kept exact as the pair [num |-> a, den |-> b].        *)
(***************************************************************************)
EXTENDS Integers, Sequences, FiniteSets, TLC

\* ------------------------------------------------------------ bounds ----
TicksPerSec == 2      \* resolution of the clock
MaxObs == 2           \* observations accepted by the filter in one run

\* ------------------------------------------------- program constants ----
USER_TIMEOUT == 45
WINDOW_SECONDS == 1
CLEANUP_SLEEP == 5
MONITOR_SLEEP == 1

\* ------------------------------------------------------------ inputs ----
\* Source addresses seen on the wire, as their four octets.
Addrs == { <<1, 2, 3, 4>>, <<5, 6, 7, 8>>, <<172, 32, 0, 1>>,
           <<127, 0, 0, 1>>, <<10, 1, 2, 3>>, <<172, 16, 0, 9>>,
           <<192, 168, 1, 5>> }
Ports == { 500, 600 }
PortSets == { {}, {500} }
\* The length field of the k-th accepted observation: 1, 2, 4, ... bytes, so
\* that every set of observations has a sum of its own.
RECURSIVE Pow2(_)
Pow2(k) == IF k = 0 THEN 1 ELSE 2 * Pow2(k - 1)
SizeOf(k) == Pow2(k - 1)
\* The last clock reading of a run: 50 seconds, the end of the sleep of a
\* sweeper that made a pass at 45 seconds.
Horizon == (USER_TIMEOUT + CLEANUP_SLEEP) * TicksPerSec
\* The clock readings of a run: the start, one tick later, one second
\* later, 45 seconds later, 46 seconds later and the last one.
Times == { 0, 1, TicksPerSec, 45 * TicksPerSec, 46 * TicksPerSec, Horizon }
ReaderKinds == { "none", "Country", "City" }
\* console.size.height: a small terminal and a tall one.
Heights == { 24, 40 }

\* The country record the database file holds for an address: a name, ""
\* for a record without a country name, "absent" for no record.
GeoDB(ip) ==
    CASE ip = <<1, 2, 3, 4>> -> "Iran"
      [] ip = <<172, 32, 0, 1>> -> "Germany"
      [] ip = <<9, 9, 9, 9>> -> ""
      [] OTHER -> "absent"

\* The addresses get_country is tried on: those of the traffic, and one
\* whose record has no country name.
GeoAddrs == Addrs \cup { <<9, 9, 9, 9>> }

VARIABLES
    clock,          \* time.time(), in ticks
    reader,         \* kind of database the module-level loop opened
    conduit_ports,  \* the monitored port set
    active_users,   \* the session table: dict entries in insertion order
    geo_cache,      \* the geo cache: address -> country name
    lock,           \* holder of the lock, "free" when released
    pc,             \* position of each thread
    ing,            \* locals of pktmon_sniffer: src_ip, size, now
    swp,            \* locals of cleanup: now, to_del, the end of its sleep
    mon,            \* locals of show_monitoring
    accepted,       \* observations accepted so far
    hist            \* history kept for the properties

vars == << clock, reader, conduit_ports, active_users, geo_cache,
           lock, pc, ing, swp, mon, accepted, hist >>

Zero == [num |-> 0, den |-> 1]

\* ----------------------------------------------------- table helpers ----
Has(t, ip) == \E i \in 1..Len(t) : t[i].ip = ip
IndexOf(t, ip) == CHOOSE i \in 1..Len(t) : t[i].ip = ip
Get(t, ip) == t[IndexOf(t, ip)]

\* ------------------------------------------------------- get_country ----
ReaderCountry(ip) ==
    IF reader = "Country" /\ GeoDB(ip) # "absent" THEN GeoDB(ip) ELSE "raise"

ReaderCity(ip) ==
    IF reader = "City" /\ GeoDB(ip) # "absent" THEN GeoDB(ip) ELSE "raise"

\* Variant of lines 114-115: no second try with city().
LookupResNoCity(ip) == ReaderCountry(ip)

\* The inner try/except: country(), and city() when country() raised.
LookupRes(ip) ==
    IF ReaderCountry(ip) # "raise" THEN ReaderCountry(ip) ELSE ReaderCity(ip)

\* Calls made on the reader by one miss: one, or two when country() raised.
LookupCalls(ip) == IF ReaderCountry(ip) # "raise" THEN 1 ELSE 2

CountryName(res) == IF res # "" THEN res ELSE "Unknown"

\* What the miss path stores in the cache: nothing when the lookup raised.
CacheAfterMiss(cache, ip) ==
    IF LookupRes(ip) = "raise"
    THEN cache
    ELSE [a \in DOMAIN cache \cup {ip} |->
             IF a = ip THEN CountryName(LookupRes(ip)) ELSE cache[a]]

\* get_country(ip): the name returned, the cache afterwards, and whether
\* and how often the reader was used.
get_country(cache, ip) ==
    IF ip \in DOMAIN cache
    THEN [name |-> cache[ip], cache |-> cache, queries |-> 0, calls |-> 0]
    ELSE IF reader # "none"
    THEN [name |-> IF LookupRes(ip) = "raise" THEN "Unknown"
                   ELSE CountryName(LookupRes(ip)),
          cache |-> CacheAfterMiss(cache, ip),
          queries |-> 1, calls |-> LookupCalls(ip)]
    ELSE [name |-> "No DB", cache |-> cache, queries |-> 0, calls |-> 0]

\* ----------------------------------------------------------- filter ----
\* Variant of line 147: the prefix '192.' left out of the tuple.
StartsWithLocalNo192(ip) == ip[1] \in {127, 10, 172}

\* Line 147: src_ip.startswith(('127.', '192.', '10.', '172.')), a test on
\* the text of the address up to its first dot.
StartsWithLocal(ip) == ip[1] \in {127, 192, 10, 172}

Relevant(ip, port) == port \in conduit_ports /\ ~StartsWithLocal(ip)

\* -------------------------------------------------------------- Init ----
NoSession == [ip |-> <<>>, country |-> "", total_bytes |-> 0, last_bytes |-> 0,
              speed |-> Zero, last_update |-> 0, last_seen |-> 0]

NoObs == [src_ip |-> <<>>, dst_port |-> 0, size |-> 0, now |-> 0]

NoLine == [src_ip |-> <<>>, dst_port |-> 0]

NoRace == [kind |-> "none", ip |-> <<>>, size |-> 0, pre_total |-> 0, now |-> 0]

NoCall == [ip |-> <<>>, name |-> "", calls |-> 0, hit |-> FALSE]

NoFrame == [wake |-> 0, sorted_users |-> <<>>, u_table |-> <<>>,
            c_stats |-> <<>>, online |-> 0]

Init ==
    /\ clock = 0
    /\ reader \in ReaderKinds
    /\ conduit_ports = {}
    /\ active_users = <<>>
    /\ geo_cache = <<>>
    /\ lock = "free"
    /\ pc = [ingest |-> "discover", sweeper |-> "start", monitor |-> "menu"]
    /\ ing = NoObs
    /\ swp = [now |-> 0, wake |-> 0, to_del |-> <<>>]
    /\ mon = NoFrame
    /\ accepted = 0
    /\ hist = [all |-> [a \in Addrs |-> 0],
               before |-> [a \in Addrs |-> 0],
               last |-> [a \in Addrs |-> -1],
               resolves |-> [a \in Addrs |-> <<>>],
               queries |-> [a \in Addrs |-> 0],
               pre |-> NoSession,
               race |-> NoRace,
               dropped |-> NoLine,
               call |-> NoCall,
               stopped |-> "no",
               swept |-> <<>>]

\* ------------------------------------------------------------- clock ----
\* Time passes: the clock moves on to a later reading.  The with blocks
\* make no blocking call, so while the lock is held the clock moves by one
\* tick at most.
Advance ==
    /\ \E t \in Times :
          /\ t > clock
          /\ lock # "free" => t - clock <= 1
          /\ clock' = t
    /\ UNCHANGED << reader, conduit_ports, active_users, geo_cache, lock, pc,
                    ing, swp, mon, accepted, hist >>

\* ---------------------------------------------------- pktmon_sniffer ----
\* Lines 131-137: poll get_conduit_ports() until it returns a port.
SnifferDiscover ==
    /\ pc.ingest = "discover"
    /\ \E ports \in PortSets :
          /\ conduit_ports' = ports
          /\ pc' = [pc EXCEPT !.ingest = IF ports # {} THEN "read" ELSE "discover"]
    /\ UNCHANGED << clock, reader, active_users, geo_cache, lock,
                    ing, swp, mon, accepted, hist >>

\* Lines 143-147: the next capture line that matches the pattern.  An
\* observation the filter rejects changes nothing of the program; the
\* history keeps it until the next line is read.
IngestLine ==
    /\ pc.ingest = "read"
    /\ accepted < MaxObs
    /\ \E src \in Addrs, port \in Ports :
          LET size == SizeOf(accepted + 1) IN
          IF Relevant(src, port)
          THEN /\ accepted' = accepted + 1
               /\ ing' = [ing EXCEPT !.src_ip = src, !.dst_port = port,
                                     !.size = size]
               /\ pc' = [pc EXCEPT !.ingest = "acquire"]
               /\ hist' = [hist EXCEPT !.all[src] = @ + size, !.race = NoRace,
                                       !.dropped = NoLine]
          ELSE /\ hist' = [hist EXCEPT
                             !.dropped = [src_ip |-> src, dst_port |-> port]]
               /\ UNCHANGED << accepted, ing, pc >>
    /\ UNCHANGED << clock, reader, conduit_ports, active_users,
                    geo_cache, lock, swp, mon >>

\* Variants of the test of line 293: a timeout one second too long, and a
\* session evicted when it has been idle for exactly the timeout.
ExpiredLate(now, d) == now - d.last_seen > (USER_TIMEOUT + 1) * TicksPerSec

ExpiredAtTimeout(now, d) == now - d.last_seen >= USER_TIMEOUT * TicksPerSec

\* Variant of line 293: a test that no session ever passes.
ExpiredNever(now, d) == now - d.last_seen > now

\* Line 293: now - d['last_seen'] > USER_TIMEOUT.
Expired(now, d) == now - d.last_seen > USER_TIMEOUT * TicksPerSec

\* The sweeper has sampled its time, waits for the lock, and would evict ip.
SweepWouldEvict(ip) ==
    /\ pc.sweeper = "acquire"
    /\ Has(active_users, ip)
    /\ Expired(swp.now, Get(active_users, ip))

\* Lines 148-149: with lock, and now = time.time() inside it.
IngestAcquire ==
    /\ pc.ingest = "acquire"
    /\ lock = "free"
    /\ lock' = "ingest"
    /\ ing' = [ing EXCEPT !.now = clock]
    /\ pc' = [pc EXCEPT !.ingest = "check"]
    /\ hist' = [hist EXCEPT
                  !.pre = IF Has(active_users, ing.src_ip)
                          THEN Get(active_users, ing.src_ip) ELSE NoSession,
                  !.race = IF SweepWouldEvict(ing.src_ip)
                           THEN [kind |-> "update_first", ip |-> ing.src_ip,
                                 size |-> ing.size, now |-> 0,
                                 pre_total |->
                                    Get(active_users, ing.src_ip).total_bytes]
                           ELSE @]
    /\ UNCHANGED << clock, reader, conduit_ports, active_users,
                    geo_cache, swp, mon, accepted >>

NewSession(ip, country, now) ==
    [ip |-> ip, country |-> country, total_bytes |-> 0, last_bytes |-> 0,
     speed |-> Zero, last_update |-> now, last_seen |-> now]

\* Lines 150-151: create the session when the address has none.
IngestCheck ==
    /\ pc.ingest = "check"
    /\ pc' = [pc EXCEPT !.ingest = "add"]
    /\ IF Has(active_users, ing.src_ip)
       THEN UNCHANGED << active_users, geo_cache, hist >>
       ELSE LET g == get_country(geo_cache, ing.src_ip) IN
            /\ active_users' =
                  Append(active_users, NewSession(ing.src_ip, g.name, ing.now))
            /\ geo_cache' = g.cache
            /\ hist' = [hist EXCEPT
                          !.before[ing.src_ip] = hist.all[ing.src_ip] - ing.size,
                          !.last[ing.src_ip] = ing.now,
                          !.resolves[ing.src_ip] = Append(@, g.name),
                          !.queries[ing.src_ip] = @ + g.queries]
    /\ UNCHANGED << clock, reader, conduit_ports, lock, ing, swp,
                    mon, accepted >>

\* Variants of line 153: = written for +=, and the line left out.
AddTotalOverwrite(t, ip, size) ==
    [t EXCEPT ![IndexOf(t, ip)].total_bytes = size]

AddTotalSkipped(t, ip, size) == t

\* Line 153.
AddTotal(t, ip, size) ==
    [t EXCEPT ![IndexOf(t, ip)].total_bytes = @ + size]

\* Line 154.
AddLast(t, ip, size) ==
    [t EXCEPT ![IndexOf(t, ip)].last_bytes = @ + size]

\* Variant of line 155: last_seen set only when the session is created.
SetSeenSkipped(t, ip, now) == t

\* Line 155.
SetSeen(t, ip, now) ==
    [t EXCEPT ![IndexOf(t, ip)].last_seen = now]

Quot(a, b) == [num |-> a, den |-> b]

\* Variant of line 156: the window closed by every update.
WindowClosedAlways(now, u) == now - u.last_update >= 0

\* Variant of line 156: > written for >=.
WindowClosedStrict(now, u) == now - u.last_update > WINDOW_SECONDS * TicksPerSec

\* Line 156: now - u['last_update'] >= 1.0.
WindowClosed(now, u) == now - u.last_update >= WINDOW_SECONDS * TicksPerSec

\* Lines 156-159.  The elapsed time is in ticks, so the rate in bytes per
\* second is last_bytes * TicksPerSec over the elapsed ticks.
CloseWindow(t, ip, now) ==
    LET u == Get(t, ip) IN
    IF WindowClosed(now, u)
    THEN [t EXCEPT ![IndexOf(t, ip)] =
            [u EXCEPT !.speed = Quot(u.last_bytes * TicksPerSec, now - u.last_update),
                      !.last_bytes = 0,
                      !.last_update = now]]
    ELSE t

\* Lines 153-154.
IngestAdd ==
    /\ pc.ingest = "add"
    /\ active_users' = AddLast(AddTotal(active_users, ing.src_ip, ing.size),
                               ing.src_ip, ing.size)
    /\ pc' = [pc EXCEPT !.ingest = "seen"]
    /\ UNCHANGED << clock, reader, conduit_ports, geo_cache, lock,
                    ing, swp, mon, accepted, hist >>

\* Line 155.
IngestSeen ==
    /\ pc.ingest = "seen"
    /\ active_users' = SetSeen(active_users, ing.src_ip, ing.now)
    /\ pc' = [pc EXCEPT !.ingest = "window"]
    /\ hist' = [hist EXCEPT !.last[ing.src_ip] = ing.now]
    /\ UNCHANGED << clock, reader, conduit_ports, geo_cache, lock,
                    ing, swp, mon, accepted >>

\* Lines 156-159.
IngestWindow ==
    /\ pc.ingest = "window"
    /\ active_users' = CloseWindow(active_users, ing.src_ip, ing.now)
    /\ pc' = [pc EXCEPT !.ingest = "exit"]
    /\ UNCHANGED << clock, reader, conduit_ports, geo_cache, lock,
                    ing, swp, mon, accepted, hist >>

\* The end of the with block: the lock is released and the for loop waits
\* for the next line.
IngestExit ==
    /\ pc.ingest = "exit"
    /\ lock' = "free"
    /\ pc' = [pc EXCEPT !.ingest = "read"]
    /\ ing' = NoObs
    /\ hist' = [hist EXCEPT
                  !.pre = NoSession,
                  !.race = CASE @.kind = "sweep_first" ->
                                  [@ EXCEPT !.kind = "recreated", !.now = ing.now]
                             [] @.kind = "update_first" ->
                                  [@ EXCEPT !.now = ing.now]
                             [] OTHER -> @]
    /\ UNCHANGED << clock, reader, conduit_ports, active_users,
                    geo_cache, swp, mon, accepted >>

\* ----------------------------------------------------------- cleanup ----
\* time.sleep(seconds) has returned: not before the time slept for is over.
Slept(wake) == clock >= wake

\* Line 291, on entry and again after each time.sleep(5).
SweepNow ==
    /\ \/ pc.sweeper = "start"
       \/ pc.sweeper = "sleep" /\ Slept(swp.wake)
    /\ swp' = [now |-> clock, wake |-> 0, to_del |-> <<>>]
    /\ pc' = [pc EXCEPT !.sweeper = "acquire"]
    /\ hist' = [hist EXCEPT !.race = NoRace]
    /\ UNCHANGED << clock, reader, conduit_ports, active_users,
                    geo_cache, lock, ing, mon, accepted >>

\* Line 292: with lock.
SweepAcquire ==
    /\ pc.sweeper = "acquire"
    /\ lock = "free"
    /\ lock' = "sweeper"
    /\ pc' = [pc EXCEPT !.sweeper = "sweep"]
    /\ hist' = [hist EXCEPT
                  !.race = IF pc.ingest = "acquire" /\ SweepWouldEvict(ing.src_ip)
                           THEN [kind |-> "sweep_first", ip |-> ing.src_ip,
                                 size |-> ing.size, now |-> 0,
                                 pre_total |->
                                    Get(active_users, ing.src_ip).total_bytes]
                           ELSE @]
    /\ UNCHANGED << clock, reader, conduit_ports, active_users,
                    geo_cache, ing, swp, mon, accepted >>

\* The addresses of the sessions of t, in the order of the dict.
RECURSIVE Keys(_)
Keys(t) == IF t = <<>> THEN <<>> ELSE << Head(t).ip >> \o Keys(Tail(t))

\* Variant of line 293: >= written for >.
ToDelAtTimeout(t, now) ==
    Keys(SelectSeq(t, LAMBDA d :
                         now - d.last_seen >= USER_TIMEOUT * TicksPerSec))

\* Line 293: to_del, the addresses of the expired sessions.
ToDel(t, now) == Keys(SelectSeq(t, LAMBDA d : Expired(now, d)))

\* Line 294: del active_users[ip].
Del(t, ip) == SelectSeq(t, LAMBDA d : d.ip # ip)

\* The history of a race when the pass has come to its end.
PassDone(race) ==
    IF race.kind = "update_first" THEN [race EXCEPT !.kind = "survived"]
    ELSE race

\* Line 293: the list to_del is built; with nothing in it the for loop of
\* line 294 ends at once.  The history keeps the table the pass found.
SweepSelect ==
    /\ pc.sweeper = "sweep"
    /\ LET to_del == ToDel(active_users, swp.now) IN
          /\ swp' = [swp EXCEPT !.to_del = to_del]
          /\ pc' = [pc EXCEPT
                      !.sweeper = IF to_del = <<>> THEN "exit" ELSE "delete"]
          /\ hist' = [hist EXCEPT
                        !.swept = active_users,
                        !.race = IF to_del = <<>> THEN PassDone(@) ELSE @]
    /\ UNCHANGED << clock, reader, conduit_ports, active_users, geo_cache,
                    lock, ing, mon, accepted >>

\* Line 294: one iteration of the for loop, one session deleted.
SweepDelete ==
    /\ pc.sweeper = "delete"
    /\ active_users' = Del(active_users, Head(swp.to_del))
    /\ swp' = [swp EXCEPT !.to_del = Tail(@)]
    /\ pc' = [pc EXCEPT
                !.sweeper = IF Tail(swp.to_del) = <<>> THEN "exit" ELSE "delete"]
    /\ hist' = [hist EXCEPT
                  !.race = IF Tail(swp.to_del) = <<>> THEN PassDone(@) ELSE @]
    /\ UNCHANGED << clock, reader, conduit_ports, geo_cache, lock, ing,
                    mon, accepted >>

\* Variant of line 295: time.sleep(5) indented into the with block.
SweepExitKeepsLock ==
    /\ pc.sweeper = "exit"
    /\ swp' = [now |-> 0, wake |-> clock + CLEANUP_SLEEP * TicksPerSec,
               to_del |-> <<>>]
    /\ pc' = [pc EXCEPT !.sweeper = "sleep"]
    /\ hist' = [hist EXCEPT !.swept = <<>>]
    /\ UNCHANGED << clock, reader, conduit_ports, active_users, geo_cache,
                    lock, ing, mon, accepted >>

\* The end of the with block, and line 295: time.sleep(5) begins.
SweepExit ==
    /\ pc.sweeper = "exit"
    /\ lock' = "free"
    /\ swp' = [now |-> 0, wake |-> clock + CLEANUP_SLEEP * TicksPerSec,
               to_del |-> <<>>]
    /\ pc' = [pc EXCEPT !.sweeper = "sleep"]
    /\ hist' = [hist EXCEPT !.swept = <<>>]
    /\ UNCHANGED << clock, reader, conduit_ports, active_users, geo_cache,
                    ing, mon, accepted >>

\* --------------------------------------------------- show_monitoring ----
\* sorted(..., key=last_seen, reverse=True): a stable sort, so sessions
\* with equal last_seen keep their order in the dict.
RECURSIVE InsertDesc(_, _)
InsertDesc(s, e) ==
    IF s = <<>> THEN << e >>
    ELSE IF Head(s).last_seen >= e.last_seen
         THEN << Head(s) >> \o InsertDesc(Tail(s), e)
         ELSE << e >> \o s

RECURSIVE SortInto(_, _)
SortInto(acc, t) ==
    IF t = <<>> THEN acc ELSE SortInto(InsertDesc(acc, Head(t)), Tail(t))

\* Variant of line 186: the items taken in dict order, sorted() left out.
SortedUsersUnsorted(t) == t

\* Line 186.
SortedUsers(t) == SortInto(<<>>, t)

\* Line 176.
AvailableRows(term_height) ==
    IF term_height - 20 > 5 THEN term_height - 20 ELSE 5

\* Lines 187-188: the rows of the table on the screen, the first
\* available_rows of sorted_users.
Rows(sorted_users, available_rows) ==
    SubSeq(sorted_users, 1,
           IF Len(sorted_users) < available_rows
           THEN Len(sorted_users) ELSE available_rows)

\* Variant of line 195: = written for +=.
CountInOverwrite(acc, d) ==
    LET old == IF d.country \in DOMAIN acc THEN acc[d.country]
               ELSE [n |-> 0, v |-> 0]
    IN [c \in DOMAIN acc \cup {d.country} |->
          IF c = d.country
          THEN [n |-> old.n + 1, v |-> d.total_bytes]
          ELSE acc[c]]

\* Lines 192-195: one session added to the rollup.
CountIn(acc, d) ==
    LET old == IF d.country \in DOMAIN acc THEN acc[d.country]
               ELSE [n |-> 0, v |-> 0]
    IN [c \in DOMAIN acc \cup {d.country} |->
          IF c = d.country
          THEN [n |-> old.n + 1, v |-> old.v + d.total_bytes]
          ELSE acc[c]]

RECURSIVE StatsInto(_, _)
StatsInto(acc, t) ==
    IF t = <<>> THEN acc ELSE StatsInto(CountIn(acc, Head(t)), Tail(t))

\* Lines 190-195.
CStats(t) == StatsInto(<<>>, t)

\* Line 268: command 2 of the menu, the relay running; show_monitoring runs
\* up to its with statement.  Lines 175-177 touch nothing shared: now feeds
\* only the "Last Seen" column.
MenuOpen ==
    /\ pc.monitor = "menu"
    /\ pc' = [pc EXCEPT !.monitor = "acquire"]
    /\ hist' = [hist EXCEPT !.stopped = "no"]
    /\ UNCHANGED << clock, reader, conduit_ports, active_users,
                    geo_cache, lock, ing, swp, mon, accepted >>

\* time.sleep(1) returns and lines 175-177 run again.
MonWake ==
    /\ pc.monitor = "sleep"
    /\ Slept(mon.wake)
    /\ mon' = NoFrame
    /\ pc' = [pc EXCEPT !.monitor = "acquire"]
    /\ UNCHANGED << clock, reader, conduit_ports, active_users,
                    geo_cache, lock, ing, swp, accepted, hist >>

\* Line 178: with lock.
MonAcquire ==
    /\ pc.monitor = "acquire"
    /\ lock = "free"
    /\ lock' = "monitor"
    /\ pc' = [pc EXCEPT !.monitor = "tables"]
    /\ UNCHANGED << clock, reader, conduit_ports, active_users,
                    geo_cache, ing, swp, mon, accepted, hist >>

\* Lines 179-202: the rows and the rollup, built inside the with block.
MonTables ==
    /\ pc.monitor = "tables"
    /\ \E term_height \in Heights :
          mon' = [mon EXCEPT
                    !.sorted_users = SortedUsers(active_users),
                    !.u_table = Rows(SortedUsers(active_users),
                                     AvailableRows(term_height)),
                    !.c_stats = CStats(active_users)]
    /\ pc' = [pc EXCEPT !.monitor = "exit"]
    /\ UNCHANGED << clock, reader, conduit_ports, active_users,
                    geo_cache, lock, ing, swp, accepted, hist >>

\* The end of the with block.
MonExit ==
    /\ pc.monitor = "exit"
    /\ lock' = "free"
    /\ pc' = [pc EXCEPT !.monitor = "header"]
    /\ UNCHANGED << clock, reader, conduit_ports, active_users,
                    geo_cache, ing, swp, mon, accepted, hist >>

\* Line 204: len(active_users), read after the with block has ended.
MonHeader ==
    /\ pc.monitor = "header"
    /\ mon' = [mon EXCEPT !.online = Len(active_users)]
    /\ pc' = [pc EXCEPT !.monitor = "render"]
    /\ UNCHANGED << clock, reader, conduit_ports, active_users,
                    geo_cache, lock, ing, swp, accepted, hist >>

\* Lines 205-212: the frame is shown, then time.sleep(1).
MonRender ==
    /\ pc.monitor = "render"
    /\ mon' = [NoFrame EXCEPT !.wake = clock + MONITOR_SLEEP * TicksPerSec]
    /\ pc' = [pc EXCEPT !.monitor = "sleep"]
    /\ UNCHANGED << clock, reader, conduit_ports, active_users,
                    geo_cache, lock, ing, swp, accepted, hist >>

\* Variant of line 178: the lock taken with acquire() and no with block,
\* so that the exception leaves it held.
MonInterruptKeepsLock ==
    /\ pc.monitor # "menu"
    /\ pc' = [pc EXCEPT !.monitor = "menu"]
    /\ mon' = NoFrame
    /\ hist' = [hist EXCEPT
                  !.stopped = IF lock = "monitor" THEN "held" ELSE "free"]
    /\ UNCHANGED << clock, reader, conduit_ports, active_users,
                    geo_cache, lock, ing, swp, accepted >>

\* Line 213: KeyboardInterrupt anywhere in the loop; the with block, when
\* the loop is inside it, releases the lock on the way out.  The history
\* keeps whether the loop held the lock when the interrupt came.
MonInterrupt ==
    /\ pc.monitor # "menu"
    /\ pc' = [pc EXCEPT !.monitor = "menu"]
    /\ lock' = IF lock = "monitor" THEN "free" ELSE lock
    /\ mon' = NoFrame
    /\ hist' = [hist EXCEPT
                  !.stopped = IF lock = "monitor" THEN "held" ELSE "free"]
    /\ UNCHANGED << clock, reader, conduit_ports, active_users,
                    geo_cache, ing, swp, accepted >>

\* ----------------------------------------------------- specification ----
\* A line the filter accepts.  The lines it rejects change nothing of the
\* program and are left out where the three threads run together.
IngestAccepted == IngestLine /\ pc'.ingest = "acquire"

Next ==
    \/ Advance
    \/ SnifferDiscover
    \/ IngestAccepted
    \/ IngestAcquire
    \/ IngestCheck
    \/ IngestAdd
    \/ IngestSeen
    \/ IngestWindow
    \/ IngestExit
    \/ SweepNow
    \/ SweepAcquire
    \/ SweepSelect
    \/ SweepDelete
    \/ SweepExit
    \/ MenuOpen
    \/ MonWake
    \/ MonAcquire
    \/ MonTables
    \/ MonExit
    \/ MonHeader
    \/ MonRender
    \/ MonInterrupt

Spec == Init /\ [][Next]_vars

\* ------------------------------------------------------- scheduling ----
\* Every thread waits: the sniffer for a line (or between two polls for the
\* ports), the sweeper and the monitor in a sleep that is not over, or the
\* main thread at the menu.
AllBlocked ==
    /\ pc.ingest \in { "discover", "read" }
    /\ pc.sweeper = "sleep" /\ ~Slept(swp.wake)
    /\ \/ pc.monitor = "menu"
       \/ pc.monitor = "sleep" /\ ~Slept(mon.wake)

\* Time passes while the threads are scheduled without delay: the clock
\* moves to its next reading, so that a sleep that ends at a reading is
\* seen to end there, and a thread that can run has run before the clock
\* has moved on by more than a tick.
AdvanceTimely ==
    /\ Advance
    /\ \A t \in Times : ~(clock < t /\ t < clock')
    /\ clock' - clock > 1 => AllBlocked

\* Time passes.  A thread that can run does run: the sweeper is a thread
\* of its own (line 296), and so is the sniffer (line 287) once a line has
\* been accepted, and the loop of show_monitoring once the user has opened
\* it; the lock is held for a few statements at a time, so a thread that
\* waits for it gets it.  Nothing is assumed of the capture stream or of
\* the user at the menu.
Fairness ==
    /\ SF_vars(AdvanceTimely)
    /\ WF_vars(SweepNow)
    /\ SF_vars(SweepAcquire)
    /\ WF_vars(SweepSelect)
    /\ WF_vars(SweepDelete)
    /\ WF_vars(SweepExit)
    /\ SF_vars(IngestAcquire)
    /\ WF_vars(IngestCheck)
    /\ WF_vars(IngestAdd)
    /\ WF_vars(IngestSeen)
    /\ WF_vars(IngestWindow)
    /\ WF_vars(IngestExit)
    /\ WF_vars(MonWake)
    /\ SF_vars(MonAcquire)
    /\ WF_vars(MonTables)
    /\ WF_vars(MonExit)
    /\ WF_vars(MonHeader)
    /\ WF_vars(MonRender)

LiveNext ==
    \/ AdvanceTimely
    \/ SnifferDiscover
    \/ IngestAccepted
    \/ IngestAcquire
    \/ IngestCheck
    \/ IngestAdd
    \/ IngestSeen
    \/ IngestWindow
    \/ IngestExit
    \/ SweepNow
    \/ SweepAcquire
    \/ SweepSelect
    \/ SweepDelete
    \/ SweepExit
    \/ MenuOpen
    \/ MonWake
    \/ MonAcquire
    \/ MonTables
    \/ MonExit
    \/ MonHeader
    \/ MonRender
    \/ MonInterrupt

LiveSpec == Init /\ [][LiveNext]_vars /\ Fairness

\* ------------------------------------------------ the sniffer alone ----
\* pktmon_sniffer on its own, with every line of the capture stream, those
\* the filter rejects included.
SnifferNext ==
    \/ Advance
    \/ SnifferDiscover
    \/ IngestLine
    \/ IngestAcquire
    \/ IngestCheck
    \/ IngestAdd
    \/ IngestSeen
    \/ IngestWindow
    \/ IngestExit

SnifferSpec == Init /\ [][SnifferNext]_vars

\* ------------------------------------------- get_country on its own ----
\* One call of get_country; the history keeps the call and its outcome.
Resolve ==
    /\ \E ip \in GeoAddrs :
          LET g == get_country(geo_cache, ip) IN
          /\ geo_cache' = g.cache
          /\ hist' = [hist EXCEPT
                        !.call = [ip |-> ip, name |-> g.name, calls |-> g.calls,
                                  hit |-> ip \in DOMAIN geo_cache]]
    /\ UNCHANGED << clock, reader, conduit_ports, active_users, lock, pc,
                    ing, swp, mon, accepted >>

\* Calls of get_country, one after another, for every kind of database.
ResolveSpec == Init /\ [][Resolve]_vars

\* ======================================================== properties ====
Seconds(n) == n * TicksPerSec

\* No update is in flight: the sniffer is between two observations.
Idle == pc.ingest \in { "discover", "read" }

\* Bytes of the observations accepted for an address since the session it
\* has now was created.
SinceCreation(a) == hist.all[a] - hist.before[a]

Observed(a) == hist.last[a] >= 0

\* ---- C1 ----------------------------------------------------------------
\* C1 as stated: with every update applied, total_bytes of a session is the
\* sum of all the sizes ever accepted for its address.
C1_SumOfAllRecorded ==
    Idle => \A i \in 1..Len(active_users) :
               active_users[i].total_bytes = hist.all[active_users[i].ip]

C1_SumSinceCreation ==
    Idle => \A i \in 1..Len(active_users) :
               active_users[i].total_bytes = SinceCreation(active_users[i].ip)

C1_NeverDecreases ==
    \A a \in Addrs :
       Has(active_users, a) /\ Has(active_users', a)
          => Get(active_users', a).total_bytes >= Get(active_users, a).total_bytes

\* C1, amended: with every update applied, total_bytes of a session is the
\* sum of the sizes accepted for its address since that session was created
\* (an eviction followed by a new observation starts again from nothing),
\* and while the session stays in the table its total_bytes never decreases
\* from one state to the next.
C1_Monotonicity == [](C1_SumSinceCreation) /\ [][C1_NeverDecreases]_vars

\* Two observations have been applied to one session.
C1_Witness ==
    /\ Idle
    /\ \E i \in 1..Len(active_users) :
          active_users[i].total_bytes = SizeOf(1) + SizeOf(2)

\* ---- C2 ----------------------------------------------------------------
\* C2: when an update has been applied (the sniffer is about to leave the
\* with block), then against the session as it was before the update:
\* an update less than 1.0 s after the window start adds its size to
\* last_bytes and leaves speed and last_update alone (for a new session the
\* window starts with the update and holds its size); an update 1.0 s or
\* more after the window start sets speed to the window's bytes, the
\* update's size included, over the elapsed time, last_bytes to 0 and
\* last_update to the update's time.
C2_WindowCorrect ==
    pc.ingest = "exit" =>
       LET u == Get(active_users, ing.src_ip)
           u0 == hist.pre
       IN IF u0 = NoSession
          THEN /\ u.last_bytes = ing.size
               /\ u.speed = Zero
               /\ u.last_update = ing.now
          ELSE IF ing.now - u0.last_update < Seconds(1)
          THEN /\ u.last_bytes = u0.last_bytes + ing.size
               /\ u.speed = u0.speed
               /\ u.last_update = u0.last_update
          ELSE /\ u.speed = [num |-> (u0.last_bytes + ing.size) * TicksPerSec,
                             den |-> ing.now - u0.last_update]
               /\ u.last_bytes = 0
               /\ u.last_update = ing.now

\* An update exactly 1.0 s after the window start has closed a window that
\* held bytes.
C2_Witness ==
    /\ pc.ingest = "exit"
    /\ hist.pre # NoSession
    /\ hist.pre.last_bytes > 0
    /\ ing.now - hist.pre.last_update = Seconds(1)
    /\ Get(active_users, ing.src_ip).speed # Zero

\* ---- C3 ----------------------------------------------------------------
\* C3: an address last updated at T has a session at every time up to
\* T + 44 s, and has none when a sweep pass has run with a sampled time of
\* T + 46 s or later.
C3_EvictionTiming ==
    /\ \A a \in Addrs :
          Observed(a) /\ clock <= hist.last[a] + Seconds(44)
             => Has(active_users, a)
    /\ pc.sweeper = "exit" =>
          \A a \in Addrs :
             Observed(a) /\ swp.now >= hist.last[a] + Seconds(46)
                => ~Has(active_users, a)

\* A pass has run exactly 46 s after the last update of an address.
C3_Witness ==
    /\ pc.sweeper = "exit"
    /\ \E a \in Addrs : Observed(a) /\ swp.now = hist.last[a] + Seconds(46)

\* ---- C4 ----------------------------------------------------------------
\* C4 as stated: an address has a session exactly when it was observed
\* within the 45 s before the current time.
C4_ExistsIffObserved ==
    \A a \in Addrs :
       Has(active_users, a)
          <=> (Observed(a) /\ clock - hist.last[a] <= Seconds(USER_TIMEOUT))

\* C4, amended: an address observed within the 45 s before the current
\* time has a session, and every session is of an observed address; a
\* session idle for longer stays until a sweep pass removes it, and when a
\* pass has run the table holds exactly the addresses observed within the
\* 45 s before the time sampled for that pass.
C4_ObservedHasSession ==
    /\ \A a \in Addrs :
          /\ Observed(a) /\ clock - hist.last[a] <= Seconds(USER_TIMEOUT)
                => Has(active_users, a)
          /\ Has(active_users, a) => Observed(a)
    /\ pc.sweeper = "exit" =>
          \A a \in Addrs :
             Has(active_users, a)
                <=> (Observed(a) /\ swp.now - hist.last[a] <= Seconds(USER_TIMEOUT))

\* A pass has run exactly 45 s after the last update of an address, and no
\* time has passed since.
C4_Witness ==
    /\ pc.sweeper = "exit"
    /\ swp.now = clock
    /\ \E a \in Addrs : Observed(a) /\ clock - hist.last[a] = Seconds(USER_TIMEOUT)

\* ---- C5 ----------------------------------------------------------------
\* C5: an update and a sweep that would evict the update's address both
\* wait for the lock.  If the update gets it first, the session is there
\* after the sweep with the bytes it had plus the update's, and last_seen
\* the update's time; if the sweep gets it first, the session after the
\* update is a new one: the update's bytes only, window start and last_seen
\* the update's time.  The sweep never runs while an update is half applied.
C5_RaceOutcomes ==
    /\ hist.race.kind = "survived" =>
          /\ Has(active_users, hist.race.ip)
          /\ LET u == Get(active_users, hist.race.ip) IN
                /\ u.total_bytes = hist.race.pre_total + hist.race.size
                /\ u.last_seen = hist.race.now
    /\ hist.race.kind = "recreated" =>
          /\ Has(active_users, hist.race.ip)
          /\ LET u == Get(active_users, hist.race.ip) IN
                /\ u.total_bytes = hist.race.size
                /\ u.last_bytes = hist.race.size
                /\ u.speed = Zero
                /\ u.last_update = hist.race.now
                /\ u.last_seen = hist.race.now
    /\ (/\ hist.race.kind = "sweep_first"
        /\ pc.sweeper \in { "exit", "sleep" }
        /\ pc.ingest = "acquire")
          => ~Has(active_users, hist.race.ip)
    /\ pc.sweeper \in { "sweep", "delete", "exit" }
          => pc.ingest \notin { "check", "add", "seen", "window", "exit" }

\* The update won the race and the sweep has run.
C5_Witness == hist.race.kind = "survived"

\* The sweep won the race and the update has run.
C5_WitnessRecreated == hist.race.kind = "recreated"

\* ---- C6 ----------------------------------------------------------------
\* C6: a thread that is about to read or write the session table holds the
\* lock: the sniffer at lines 150-159, the sweeper at lines 293-294, the
\* monitor at lines 186-195 and at line 204.
C6_TableAccessUnderLock ==
    /\ pc.ingest \in { "check", "add", "seen", "window" } => lock = "ingest"
    /\ pc.sweeper \in { "sweep", "delete" } => lock = "sweeper"
    /\ pc.monitor \in { "tables", "header" } => lock = "monitor"

\* ---- C7 ----------------------------------------------------------------
\* A session as a completed update leaves it: the window's bytes are part
\* of the total and the window starts no later than the last observation.
Whole(d) ==
    /\ d.last_bytes <= d.total_bytes
    /\ d.last_update <= d.last_seen
    /\ d.total_bytes > 0

\* C7: the frame the monitor is about to show is of one table state: the
\* count in the header is the number of rows, the rollup is the rollup of
\* the rows, and every row is a whole session.
C7_FrameOfOneInstant ==
    pc.monitor = "render" =>
       /\ mon.online = Len(mon.sorted_users)
       /\ mon.c_stats = CStats(mon.sorted_users)
       /\ \A i \in 1..Len(mon.sorted_users) : Whole(mon.sorted_users[i])

\* ---- C8 ----------------------------------------------------------------
\* The snapshot of lines 186-188 holds a session for an address.
InSnapshot(a) == \E i \in 1..Len(mon.sorted_users) : mon.sorted_users[i].ip = a

\* C8: in the snapshot the monitor has just taken under the lock (lines
\* 186-188), with no update in flight, the sessions are those of the table,
\* one per address, and total_bytes of every session, in sorted_users and
\* in the rows of the table on the screen, is the sum of the sizes accepted
\* for its address since the session was created.
C8_SnapshotTotals ==
    pc.monitor = "exit" /\ Idle =>
       /\ \A a \in Addrs : InSnapshot(a) <=> Has(active_users, a)
       /\ Len(mon.sorted_users) = Len(active_users)
       /\ \A i \in 1..Len(mon.sorted_users) :
             mon.sorted_users[i].total_bytes
                = SinceCreation(mon.sorted_users[i].ip)
       /\ \A i \in 1..Len(mon.u_table) :
             mon.u_table[i].total_bytes = SinceCreation(mon.u_table[i].ip)

\* The snapshot holds a session that two observations built.
C8_Witness ==
    /\ pc.monitor = "exit"
    /\ Idle
    /\ \E i \in 1..Len(mon.sorted_users) :
          /\ mon.sorted_users[i].total_bytes = SizeOf(1) + SizeOf(2)
          /\ hist.all[mon.sorted_users[i].ip] = SizeOf(1) + SizeOf(2)

\* The snapshot holds a session created again after an eviction: its total
\* is the size of the one observation since, not of the two ever accepted.
C8_WitnessRecreated ==
    /\ pc.monitor = "exit"
    /\ Idle
    /\ \E i \in 1..Len(mon.sorted_users) :
          /\ hist.before[mon.sorted_users[i].ip] > 0
          /\ mon.sorted_users[i].total_bytes
                < hist.all[mon.sorted_users[i].ip]

\* A snapshot taken while an accepted observation waits for the lock: the
\* session of its address does not hold that observation's bytes yet.
C8_WitnessInFlight ==
    /\ pc.monitor = "exit"
    /\ pc.ingest = "acquire"
    /\ \E i \in 1..Len(mon.sorted_users) :
          /\ mon.sorted_users[i].ip = ing.src_ip
          /\ mon.sorted_users[i].total_bytes + ing.size
                = SinceCreation(ing.src_ip)

\* ---- C9 ----------------------------------------------------------------
\* C9: an address resolved twice has cost at most one database lookup, its
\* name is in the geo cache, and both calls returned the same name.
C9_CacheIdempotent ==
    \A a \in Addrs :
       Len(hist.resolves[a]) >= 2 =>
          /\ hist.queries[a] <= 1
          /\ a \in DOMAIN geo_cache
          /\ \A i \in 1..Len(hist.resolves[a]) :
                hist.resolves[a][i] = hist.resolves[a][1]

\* ---- C10 ---------------------------------------------------------------
\* C10: the country of a session is the name first resolved for its
\* address, and over evictions and re-creations the database is asked at
\* most once for an address.
C10_CountryComputedOnce ==
    \A a \in Addrs :
       /\ Has(active_users, a) =>
             Get(active_users, a).country = hist.resolves[a][1]
       /\ Len(hist.resolves[a]) >= 1 => hist.queries[a] <= 1

\* ---- C11 ---------------------------------------------------------------
\* The ranges 127.0.0.0/8, 10.0.0.0/8, 172.16.0.0/12 and 192.168.0.0/16.
Private(ip) ==
    /\ Len(ip) = 4
    /\ \/ ip[1] = 127
       \/ ip[1] = 10
       \/ ip[1] = 172 /\ ip[2] \in 16..31
       \/ ip[1] = 192 /\ ip[2] = 168

C11_NoPrivateSession ==
    /\ \A a \in Addrs, p \in Ports : Private(a) => ~Relevant(a, p)
    /\ \A i \in 1..Len(active_users) : ~Private(active_users[i].ip)
    /\ \A a \in DOMAIN geo_cache : ~Private(a)
    /\ ~Private(ing.src_ip)
    /\ \A a \in Addrs :
          Private(a) => hist.all[a] = 0 /\ hist.resolves[a] = <<>> /\ ~Observed(a)

C11_PrivateLineDropped ==
    hist'.dropped # hist.dropped /\ Private(hist'.dropped.src_ip)
       => UNCHANGED << active_users, geo_cache, lock, pc, ing, accepted >>

\* C11: an observation from a private or loopback address is rejected by
\* the filter for every destination port and every monitored port set; no
\* such address ever has a session, a cache entry or an update in flight,
\* and the step that reads such a line leaves the table and the geo cache
\* as they were.
C11_PrivateExcluded ==
    [](C11_NoPrivateSession) /\ [][C11_PrivateLineDropped]_vars

\* A line from 192.168.1.5 to a monitored port has been read while the
\* table held a session.
C11_Witness ==
    /\ hist.dropped.src_ip = <<192, 168, 1, 5>>
    /\ hist.dropped.dst_port \in conduit_ports
    /\ Len(active_users) > 0

\* ---- C12 ---------------------------------------------------------------
\* C12: a line to a monitored port from an address outside the four
\* private ranges is never rejected, and every update in flight is of a
\* line to a monitored port.
C12_RelevantUpdated ==
    /\ ~(/\ hist.dropped # NoLine
         /\ hist.dropped.dst_port \in conduit_ports
         /\ ~Private(hist.dropped.src_ip))
    /\ ~Idle => ing.dst_port \in conduit_ports

\* ---- C13 ---------------------------------------------------------------
\* The two stages as the claim words them.
CountryStageSucceeds(ip) == reader = "Country" /\ GeoDB(ip) # "absent"

CityStageSucceeds(ip) == reader = "City" /\ GeoDB(ip) # "absent"

\* C13: a call of get_country that finds nothing in the cache returns a
\* name and never raises.  With no database it returns "No DB" and makes
\* no lookup.  With a database it makes the country-level lookup, makes the
\* city-level lookup exactly when the country-level one failed, and
\* returns the country name of the first stage that succeeded, "Unknown"
\* when that record has no country name or when both stages failed.
C13_ResolveFallback ==
    LET c == hist.call IN
    c # NoCall /\ ~c.hit =>
       /\ c.name \notin { "raise", "absent", "" }
       /\ reader = "none" => c.name = "No DB" /\ c.calls = 0
       /\ reader # "none" =>
             /\ c.calls = IF CountryStageSucceeds(c.ip) THEN 1 ELSE 2
             /\ c.name =
                   IF CountryStageSucceeds(c.ip) \/ CityStageSucceeds(c.ip)
                   THEN IF GeoDB(c.ip) = "" THEN "Unknown" ELSE GeoDB(c.ip)
                   ELSE "Unknown"

\* The city-level lookup gave the name after the country-level one failed.
C13_Witness ==
    /\ hist.call.calls = 2
    /\ hist.call.name = "Iran"

\* A record without a country name came back as "Unknown".
C13_WitnessNoName ==
    /\ hist.call.ip = <<9, 9, 9, 9>>
    /\ hist.call.calls = 1
    /\ hist.call.name = "Unknown"

\* ---- C14 ---------------------------------------------------------------
\* C14: the sessions the monitor has just ordered (it still holds the
\* lock) are those of the table, each once, and of two consecutive entries
\* the earlier has the later or equal last_seen.
C14_OrderedSessions ==
    pc.monitor = "exit" =>
       LET o == mon.sorted_users IN
       /\ Len(o) = Len(active_users)
       /\ \A i \in 1..Len(active_users) : \E j \in 1..Len(o) : o[j] = active_users[i]
       /\ \A i, j \in 1..Len(o) : i # j => o[i].ip # o[j].ip
       /\ \A i \in 1..(Len(o) - 1) : o[i].last_seen >= o[i + 1].last_seen

\* The session observed last was created second, and the order has put
\* it first.
C14_Witness ==
    /\ pc.monitor = "exit"
    /\ Len(mon.sorted_users) = 2
    /\ mon.sorted_users[1] = active_users[2]
    /\ mon.sorted_users[1].last_seen > mon.sorted_users[2].last_seen

\* ---- C15 ---------------------------------------------------------------
RECURSIVE SumTotals(_, _)
SumTotals(t, c) ==
    IF t = <<>> THEN 0
    ELSE (IF Head(t).country = c THEN Head(t).total_bytes ELSE 0)
            + SumTotals(Tail(t), c)

RECURSIVE SumOver(_, _)
SumOver(f, S) ==
    IF S = {} THEN 0
    ELSE LET x == CHOOSE y \in S : TRUE IN f[x] + SumOver(f, S \ {x})

\* C15: the rollup the monitor has just built (it still holds the lock)
\* has an entry for exactly the countries of the sessions in the table;
\* the entry counts the sessions of the country and sums their
\* total_bytes, so the counts add up to the size of the table and the
\* sums to the total of all sessions.
C15_CountryRollup ==
    pc.monitor = "exit" =>
       LET r == mon.c_stats
           t == active_users
       IN /\ DOMAIN r = { t[i].country : i \in 1..Len(t) }
          /\ \A c \in DOMAIN r :
                /\ r[c].n = Cardinality({ i \in 1..Len(t) : t[i].country = c })
                /\ r[c].v = SumTotals(t, c)
          /\ SumOver([c \in DOMAIN r |-> r[c].n], DOMAIN r) = Len(t)
          /\ SumOver([c \in DOMAIN r |-> r[c].v], DOMAIN r)
                = SumOver([i \in 1..Len(t) |-> t[i].total_bytes], 1..Len(t))

\* Two sessions of one country are in the rollup.
C15_Witness ==
    /\ pc.monitor = "exit"
    /\ \E c \in DOMAIN mon.c_stats :
          mon.c_stats[c].n = 2 /\ mon.c_stats[c].v = SizeOf(1) + SizeOf(2)

\* Two countries are in the rollup.
C15_WitnessTwoCountries ==
    /\ pc.monitor = "exit"
    /\ Cardinality(DOMAIN mon.c_stats) = 2

\* ---- C16 ---------------------------------------------------------------
C16_StoppedClean ==
    /\ pc.monitor = "menu" => lock # "monitor" /\ mon = NoFrame
    /\ hist.stopped # "no" => pc.monitor = "menu"
    /\ hist.stopped # "no" /\ lock = "free" =>
          /\ pc.ingest = "acquire" => ENABLED IngestAcquire
          /\ pc.sweeper = "acquire" => ENABLED SweepAcquire

C16_InterruptStep ==
    pc.monitor # "menu" /\ pc'.monitor = "menu" =>
       /\ active_users' = active_users
       /\ geo_cache' = geo_cache
       /\ lock' = IF lock = "monitor" THEN "free" ELSE lock
       /\ UNCHANGED << pc.ingest, pc.sweeper, ing, swp >>

\* C16: an interrupt at any point of the loop of show_monitoring takes the
\* main thread back to the menu; that step leaves the session table, the
\* geo cache and the other two threads as they were and frees the lock
\* when the loop held it; with the loop stopped the monitor does not hold
\* the lock, and the sniffer and the sweeper can take it when it is free.
C16_CleanInterrupt == [](C16_StoppedClean) /\ [][C16_InterruptStep]_vars

\* The interrupt came while the loop held the lock, and since then the
\* sniffer has taken the lock and applied an update.
C16_Witness ==
    /\ hist.stopped = "held"
    /\ lock = "ingest"
    /\ pc.ingest = "exit"

\* The interrupt came while the loop held the lock, and since then the
\* sweeper has taken the lock and evicted a session.
C16_WitnessSweep ==
    /\ hist.stopped = "held"
    /\ lock = "sweeper"
    /\ pc.sweeper = "exit"
    /\ \E a \in Addrs : Observed(a) /\ ~Has(active_users, a)

\* ---- C17 ---------------------------------------------------------------
\* C17: the sniffer holds the lock exactly from line 149 to line 159 of one
\* update and not while it waits for a line; the sweeper exactly during
\* lines 293-294 of one pass and not during time.sleep(5); the monitor
\* exactly during lines 179-202 of one frame and not while it renders the
\* frame and sleeps.
C17_NoLockWhileBlocked ==
    /\ lock = "ingest" <=> pc.ingest \in { "check", "add", "seen", "window", "exit" }
    /\ lock = "sweeper" <=> pc.sweeper \in { "sweep", "delete", "exit" }
    /\ lock = "monitor" <=> pc.monitor \in { "tables", "exit" }
    /\ pc.ingest \in { "discover", "read" } => lock # "ingest"
    /\ pc.sweeper = "sleep" => lock # "sweeper"
    /\ pc.monitor \in { "header", "render", "sleep" } => lock # "monitor"

\* The sweeper sleeps after a pass and the monitor sleeps after a frame
\* while the sniffer, which has waited for a line, applies an update.
C17_Witness ==
    /\ pc.sweeper = "sleep"
    /\ pc.monitor = "sleep"
    /\ lock = "ingest"
    /\ pc.ingest = "window"

\* ---- C18 ---------------------------------------------------------------
\* The pass has come to its end (the sweeper still holds the lock): of the
\* table it found, the sessions idle for 45 s or less are there, as they
\* were, and no other.
C18_PassResult ==
    pc.sweeper = "exit" =>
       \A a \in Addrs :
          /\ Has(active_users, a)
                <=> /\ Has(hist.swept, a)
                    /\ swp.now - Get(hist.swept, a).last_seen
                          <= Seconds(USER_TIMEOUT)
          /\ Has(active_users, a)
                => Get(active_users, a) = Get(hist.swept, a)

\* A step that removes a session is an iteration of line 294, and the
\* session is one idle for more than 45 s at the time sampled for the
\* pass; the step leaves every other session as it was.
C18_RemovalStep ==
    \A a \in Addrs :
       Has(active_users, a) /\ ~Has(active_users', a)
          => /\ pc.sweeper = "delete"
             /\ lock = "sweeper"
             /\ swp.now - Get(active_users, a).last_seen > Seconds(USER_TIMEOUT)
             /\ \A b \in Addrs \ {a} :
                   /\ Has(active_users, b) <=> Has(active_users', b)
                   /\ Has(active_users, b)
                         => Get(active_users', b) = Get(active_users, b)

\* C18: a sweep pass removes the sessions whose last_seen is more than
\* 45 s before the time the sweeper sampled for the pass, and keeps every
\* other session, one idle for exactly 45 s too, with all its fields; no
\* other step of any thread removes a session.
C18_SweepFrame == [](C18_PassResult) /\ [][C18_RemovalStep]_vars

\* A pass has kept a session idle for exactly 45 s and removed an older
\* one.
C18_Witness ==
    /\ pc.sweeper = "exit"
    /\ \E a, b \in Addrs :
          /\ Has(active_users, a)
          /\ swp.now - Get(active_users, a).last_seen = Seconds(USER_TIMEOUT)
          /\ Observed(b)
          /\ ~Has(active_users, b)

\* ---- C19 ---------------------------------------------------------------
\* No update is half applied: the sniffer is outside lines 150-159.
UpdatesComplete == pc.ingest \notin { "check", "add", "seen", "window" }

C19_SessionInvariant ==
    /\ UpdatesComplete =>
          \A i \in 1..Len(active_users) :
             LET u == active_users[i] IN
             /\ u.last_update <= u.last_seen
             /\ u.last_seen - u.last_update < Seconds(1)
             /\ u.last_bytes <= u.total_bytes
    /\ \A i \in 1..Len(active_users) :
          LET u == active_users[i] IN
          u.speed = Zero \/ u.speed.den >= Seconds(1)

C19_SpeedStep ==
    \A a \in Addrs :
       (/\ Has(active_users, a)
        /\ Has(active_users', a)
        /\ Get(active_users', a).speed # Get(active_users, a).speed)
          => /\ Get(active_users', a).speed.den
                   = ing.now - Get(active_users, a).last_update
             /\ Get(active_users', a).speed.den >= Seconds(1)

\* C19: with the clock never going back, every session that no update is
\* working on has last_update <= last_seen, less than 1.0 s between them,
\* and last_bytes <= total_bytes; every step that assigns speed divides by
\* now - last_update of at least 1.0 s, so no speed in the table is a
\* quotient by zero, that of a session just created included.
C19_WindowInvariants == [](C19_SessionInvariant) /\ [][C19_SpeedStep]_vars

\* An update one tick after the window start has left the window open, on
\* a session that is more than the update that created it.
C19_Witness ==
    /\ pc.ingest = "exit"
    /\ LET u == Get(active_users, ing.src_ip) IN
          /\ u.last_seen - u.last_update = 1
          /\ u.last_bytes = SizeOf(1) + SizeOf(2)
          /\ u.speed = Zero

\* A session created and updated at one instant: the elapsed time is 0 and
\* no speed has been computed.
C19_WitnessSameInstant ==
    /\ pc.ingest = "exit"
    /\ hist.pre # NoSession
    /\ hist.pre.last_update = ing.now
    /\ Get(active_users, ing.src_ip).speed = Zero

\* ---- C20 ---------------------------------------------------------------
\* The addresses the filter accepts.
Public == { a \in Addrs : ~StartsWithLocal(a) }

\* Last observations more than 45 s before the last clock reading.
EarlyTimes == { t \in Times : t + Seconds(USER_TIMEOUT) < Horizon }

\* A session last observed at an early time is still in the table.
Stale ==
    \E a \in Public : Has(active_users, a) /\ hist.last[a] \in EarlyTimes

C20_EventuallyEvicted == Stale ~> ~Stale

\* The sweeper is about to sample the time, or sleeps and its sleep ends
\* by the last clock reading.
SweeperDue ==
    \/ pc.sweeper = "start"
    \/ pc.sweeper = "sleep" /\ swp.wake <= Horizon

C20_SweeperRuns == SweeperDue ~> (pc.sweeper = "sweep")

C20_LockFreed == []<>(lock = "free")

C20_UpdateServed == (pc.ingest = "acquire") ~> (pc.ingest = "check")

\* C20: with the threads scheduled fairly and without delay, the sessions
\* that get no further observation are removed in the end; the sweeper,
\* whenever its sleep ends, takes the lock and runs a pass; the lock is
\* free again and again, and an update that waits for it gets it.
C20_Liveness ==
    /\ C20_EventuallyEvicted
    /\ C20_SweeperRuns
    /\ C20_LockFreed
    /\ C20_UpdateServed

\* A session that got no further observation has been removed by a pass
\* made when the last clock reading had been reached and after every
\* observation of the run.
C20_Witness ==
    /\ pc.sweeper = "exit"
    /\ clock = Horizon
    /\ accepted = MaxObs
    /\ \E a \in Public : hist.last[a] \in EarlyTimes /\ ~Has(active_users, a)

====
